---- MODULE Spec2Model ----
(***************************************************************************)
(* A model of the kubernetes-rs client core: the path/query builder        *)
(* (Client::url), the option structs and their query encoding, the         *)
(* TypeMeta marker's decoder, the request executor (do_request), the watch *)
(* processor's frame splitting and the operations of Client.               *)
(*                                                                         *)
(* Option<T> is modelled as a sequence of length at most one: None is <<>> *)
(* and Some(x) is <<x>>.  Result<T, E> is a record with a field ok.        *)
(***************************************************************************)
EXTENDS Integers, Sequences, FiniteSets, TLC

VARIABLES urlIn, urlOut,      \* one evaluation of Client::url: its arguments, its result
          tmIn, tmOut,        \* one decoding of a TypeMeta envelope
          fs,                 \* the frame splitter of one watch response
          calls, wire         \* the calls of a Client and the requests sent on its transport

vars == <<urlIn, urlOut, tmIn, tmOut, fs, calls, wire>>

None == <<>>
Some(x) == <<x>>

Ok(v) == [ok |-> TRUE, value |-> v]
Err(kind, detail) == [ok |-> FALSE, error |-> kind, detail |-> detail]

Range(s) == {s[i] : i \in 1..Len(s)}

RECURSIVE SeqsUpTo(_, _)
SeqsUpTo(S, n) ==
    IF n = 0 THEN {<<>>}
    ELSE LET shorter == SeqsUpTo(S, n - 1)
         IN shorter \cup {Append(q, x) : q \in shorter, x \in S}

(***************************************************************************)
(* GetOptions and ListOptions (client/mod.rs 121-153).                     *)
(***************************************************************************)

\* is_default: the value equals Default::default() of its type.
GetOptionsDefault == [type |-> "GetOptions", pretty |-> FALSE]

ListOptionsDefault ==
    [type |-> "ListOptions",
     resource_version |-> "", timeout_seconds |-> 0, watch |-> FALSE,
     pretty |-> FALSE, field_selector |-> "", label_selector |-> "",
     include_uninitialized |-> FALSE, limit |-> 0, continu |-> ""]

DefaultOf(opts) ==
    IF opts.type = "GetOptions" THEN GetOptionsDefault ELSE ListOptionsDefault

is_default(opts) == opts = DefaultOf(opts)

\* The fields of each struct in declaration order, which is serde's order.
Fields(opts) ==
    IF opts.type = "GetOptions"
    THEN <<"pretty">>
    ELSE <<"resource_version", "timeout_seconds", "watch", "pretty",
           "field_selector", "label_selector", "include_uninitialized",
           "limit", "continu">>

\* rename with a fault: the rename = "continue" attribute of continu is lost.
renameCamelOnly(field) ==
    CASE field = "resource_version" -> "resourceVersion"
      [] field = "timeout_seconds" -> "timeoutSeconds"
      [] field = "field_selector" -> "fieldSelector"
      [] field = "label_selector" -> "labelSelector"
      [] field = "include_uninitialized" -> "includeUninitialized"
      [] OTHER -> field

\* serde(rename_all = "camelCase"), and rename = "continue" on continu.
rename(field) ==
    CASE field = "resource_version" -> "resourceVersion"
      [] field = "timeout_seconds" -> "timeoutSeconds"
      [] field = "field_selector" -> "fieldSelector"
      [] field = "label_selector" -> "labelSelector"
      [] field = "include_uninitialized" -> "includeUninitialized"
      [] field = "continu" -> "continue"
      [] OTHER -> field

\* skip_serializing_if with a fault: no field is ever skipped.
skip_never(opts, field) == FALSE

\* serde(skip_serializing_if = "is_default") on every field.
skip_serializing_if(opts, field) == opts[field] = DefaultOf(opts)[field]

\* application/x-www-form-urlencoded of the strings the model uses: '=' and
\* ':' are escaped, ' ' becomes '+', letters, digits, '.', '-', '_' stay.
FormEncode(s) ==
    CASE s = "app=web" -> "app%3Dweb"
      [] s = "metadata.name=web" -> "metadata.name%3Dweb"
      [] s = "tok en" -> "tok+en"
      [] OTHER -> s

\* The form value of one field: bool as true/false, u32 in decimal, String escaped.
FormValue(field, v) ==
    CASE field \in {"watch", "pretty", "include_uninitialized"} ->
            (IF v THEN "true" ELSE "false")
      [] field \in {"timeout_seconds", "limit"} -> ToString(v)
      [] OTHER -> FormEncode(v)

\* serde_urlencoded::to_string(&opts): the pairs name=value of the fields that
\* are not skipped, in declaration order.  It cannot fail on these structs.
RECURSIVE SerializeFields(_, _)
SerializeFields(opts, fields) ==
    IF fields = <<>> THEN <<>>
    ELSE LET f == Head(fields)
             rest == SerializeFields(opts, Tail(fields))
         IN IF skip_serializing_if(opts, f)
            THEN rest
            ELSE <<[name |-> rename(f), value |-> FormValue(f, opts[f])]>> \o rest

to_string(opts) == Ok(SerializeFields(opts, Fields(opts)))

(***************************************************************************)
(* Client::url (client/mod.rs 261-302).                                    *)
(***************************************************************************)

\* config.cluster.server.parse(): the servers of the model and what Url::parse
\* makes of each.  A mailto: URL parses but cannot be a base.
ServerPlain == "https://192.168.42.147:8443"
ServerProxy == "https://proxy.example/kube"
ServerMail == "mailto:admin@example.com"
ServerBad == "not a url"

Servers == {ServerPlain, ServerProxy, ServerMail, ServerBad}

ParseUrl(server) ==
    CASE server = ServerPlain ->
            Ok([scheme |-> "https", host |-> "192.168.42.147:8443",
                cannot_be_a_base |-> FALSE, path |-> <<>>])
      [] server = ServerProxy ->
            Ok([scheme |-> "https", host |-> "proxy.example",
                cannot_be_a_base |-> FALSE, path |-> <<"kube">>])
      [] server = ServerMail ->
            Ok([scheme |-> "mailto", host |-> "",
                cannot_be_a_base |-> TRUE, path |-> <<"admin@example.com">>])
      [] OTHER -> Err("UrlError", "relative URL without a base")

\* path_clear with a fault: the base URL's path is kept.
path_keep(path) == path

\* path.clear()
path_clear(path) == <<>>

\* path.push(segment), for segments that need no escaping and are not dot segments
path_push(path, segment) == Append(path, segment)

\* api_root with a fault: the version is not looked at.
api_root_by_group(gvr) == IF gvr.group = "" THEN "api" ELSE "apis"

\* The root segment: "api" for the core group's v1, "apis" otherwise.
api_root(gvr) == IF gvr.group = "" /\ gvr.version = "v1" THEN "api" ELSE "apis"

url(server, gvr, namespace, name, opts) ==
    LET parsed == ParseUrl(server) IN
    IF ~parsed.ok THEN parsed
    ELSE IF parsed.value.cannot_be_a_base
    THEN Err("UrlError", "URL scheme does not support paths")
    ELSE
      LET p0 == path_clear(parsed.value.path)
          p1 == path_push(p0, api_root(gvr))
          p2 == IF gvr.group # "" THEN path_push(p1, gvr.group) ELSE p1
          p3 == path_push(p2, gvr.version)
          p4 == IF namespace # None
                THEN path_push(path_push(p3, "namespaces"), namespace[1])
                ELSE p3
          p5 == path_push(p4, gvr.resource)
          p6 == IF name # None THEN path_push(p5, name[1]) ELSE p5
          base == [scheme |-> parsed.value.scheme, host |-> parsed.value.host,
                   path |-> p6, query |-> None]
      IN IF ~is_default(opts)
         THEN LET q == to_string(opts)
              IN IF q.ok
                 THEN Ok([base EXCEPT !.query = Some(q.value)])
                 ELSE Err("UrlError", "Unable to encode URL parameters")
         ELSE Ok(base)

(***************************************************************************)
(* TypeMetaStruct<T> (api/mod.rs 21-87).                                   *)
(***************************************************************************)

\* The types T of the model with T::api_version() and T::kind(); the first is
\* TestType of the tests.
TestType == [api_version |-> "v1alpha1", kind |-> "Test"]
PodType == [api_version |-> "v1", kind |-> "Pod"]
TypeMetas == [api_version : {"v1alpha1", "v1"}, kind : {"Test", "Pod"}]

\* Expected for TypeMetaStruct<T>: "{api_version}/{kind}"
Expected(T) == T.api_version \o "/" \o T.kind

\* An envelope is the sequence of the fields of a JSON object, each a key and a
\* value that is null (None) or a string (Some).
\* Deserialize of TypeMetaRuntime, as serde derives it: a field may come in any
\* position, a repeated field is an error, an unknown field is skipped, and a
\* missing or null Option field is None.
RECURSIVE TypeMetaRuntimeFrom(_, _, _)
TypeMetaRuntimeFrom(envelope, seen, t) ==
    IF envelope = <<>> THEN Ok(t)
    ELSE LET f == Head(envelope) IN
         IF f.key \notin {"apiVersion", "kind"}
         THEN TypeMetaRuntimeFrom(Tail(envelope), seen, t)
         ELSE IF f.key \in seen
         THEN Err("duplicate_field", f.key)
         ELSE TypeMetaRuntimeFrom(
                 Tail(envelope), seen \cup {f.key},
                 IF f.key = "apiVersion"
                 THEN [t EXCEPT !.api_version = f.value]
                 ELSE [t EXCEPT !.kind = f.value])

TypeMetaRuntimeDeserialize(envelope) ==
    TypeMetaRuntimeFrom(envelope, {}, [api_version |-> None, kind |-> None])

\* TypeMetaMatch with a fault: an envelope with only one of the fields is accepted.
TypeMetaMatchLenient(T, a, k) ==
    IF a # None /\ k # None
    THEN IF a[1] = T.api_version /\ k[1] = T.kind
         THEN Ok("TypeMetaStruct")
         ELSE Err("invalid_value",
                  "invalid value: " \o a[1] \o "/" \o k[1] \o ", expected " \o Expected(T))
    ELSE Ok("TypeMetaStruct")

\* match (t.api_version, t.kind)
TypeMetaMatch(T, a, k) ==
    CASE a # None /\ k # None ->
            IF a[1] = T.api_version /\ k[1] = T.kind
            THEN Ok("TypeMetaStruct")
            ELSE Err("invalid_value",
                     "invalid value: " \o a[1] \o "/" \o k[1] \o ", expected " \o Expected(T))
      [] a = None /\ k = None -> Ok("TypeMetaStruct")
      [] a # None /\ k = None -> Err("missing_field", "kind")
      [] a = None /\ k # None -> Err("missing_field", "apiVersion")

\* TypeMetaSerialize with a fault: the kind is left out.
TypeMetaSerializeKindless(T) ==
    <<[key |-> "apiVersion", value |-> Some(T.api_version)]>>

\* Serialize for TypeMetaStruct<T>: a TypeMetaRuntime with both fields Some,
\* written as serde derives it, apiVersion before kind.
TypeMetaSerialize(T) ==
    <<[key |-> "apiVersion", value |-> Some(T.api_version)],
      [key |-> "kind", value |-> Some(T.kind)]>>

\* Deserialize for TypeMetaStruct<T>
TypeMetaDeserialize(T, envelope) ==
    LET t == TypeMetaRuntimeDeserialize(envelope) IN
    IF ~t.ok THEN t
    ELSE TypeMetaMatch(T, t.value.api_version, t.value.kind)

(***************************************************************************)
(* The frame splitter of do_watch: resplit::new(body, |&c| c == b'\n')     *)
(* (client/mod.rs 242).  The module resplit is not among the source files; *)
(* its state and steps follow the design's section 4.3.                    *)
(***************************************************************************)

LF == 10

\* IsDelim with a fault: the stream is split on NUL bytes.
IsDelimNul(c) == c = 0

\* The predicate handed to resplit::new: |&c| c == b'\n'
IsDelim(c) == c = LF

\* The index of the first delimiter of buf after its first `scanned` bytes, or 0.
FindDelim(buf, scanned) ==
    LET found == {i \in (scanned + 1)..Len(buf) : IsDelim(buf[i])}
    IN IF found = {} THEN 0
       ELSE CHOOSE i \in found : \A j \in found : i <= j

\* A splitter over a response body: nothing buffered, nothing emitted.  source
\* is the bytes the body has yet to deliver and chunks the chunks it delivered.
SplitterNew(body) ==
    [phase |-> "open", source |-> body, chunks |-> <<>>,
     buf |-> <<>>, scanned |-> 0, records |-> <<>>]

\* A delimiter is found past the scan position: the bytes before it are emitted
\* as a record and removed from the buffer with the delimiter.
SplitterEmit(f) ==
    LET i == FindDelim(f.buf, f.scanned)
    IN [f EXCEPT !.records = Append(@, SubSeq(f.buf, 1, i - 1)),
                 !.buf = SubSeq(f.buf, i + 1, Len(f.buf)),
                 !.scanned = 0]

\* No delimiter in the buffer: the next chunk, the first n bytes the body has
\* left, is appended; the bytes already scanned are not scanned again.
SplitterFeed(f, n) ==
    [f EXCEPT !.scanned = Len(f.buf),
              !.buf = f.buf \o SubSeq(f.source, 1, n),
              !.chunks = Append(@, SubSeq(f.source, 1, n)),
              !.source = SubSeq(f.source, n + 1, Len(f.source))]

\* SplitterExhausted with a fault: the partial record is dropped and the
\* records end as if the buffer had been empty.
SplitterExhaustedSilent(f) ==
    [f EXCEPT !.phase = "end", !.buf = <<>>, !.scanned = 0]

\* The source is exhausted: the end of the records when the buffer is empty, a
\* terminal error when it holds a partial record.
SplitterExhausted(f) ==
    [f EXCEPT !.phase = IF f.buf = <<>> THEN "end" ELSE "failed",
              !.scanned = Len(f.buf)]

(***************************************************************************)
(* Requests, responses and do_request (client/mod.rs 155-200).             *)
(***************************************************************************)

RECURSIVE JoinPath(_)
JoinPath(path) == IF path = <<>> THEN "" ELSE "/" \o Head(path) \o JoinPath(Tail(path))

\* hyper_uri: the Url written out and parsed as a hyper::Uri.  The query stays
\* a sequence of name=value pairs, so that it can be looked into.
hyper_uri(u) ==
    [scheme |-> u.scheme, authority |-> u.host,
     path |-> IF u.path = <<>> THEN "/" ELSE JoinPath(u.path),
     query |-> u.query]

\* Request::builder().method(m).uri(hyper_uri(url)).body(b), on the result of url()
Request(method, u, content) ==
    IF u.ok
    THEN Ok([method |-> method, uri |-> hyper_uri(u.value), body |-> content])
    ELSE u

\* A response body is a JSON document or bytes that are no JSON.  A document
\* has the shape of a Status, of an object (a Pod) or of a list (a PodList).
NotJson == [json |-> FALSE, kind |-> "none"]

\* serde_json::from_slice::<T>(body): the value, or an error when the bytes are
\* no JSON or have another shape than T's.
from_slice(T, body) ==
    IF body.json /\ body.kind = T
    THEN Ok([f \in DOMAIN body \ {"json"} |-> body[f]])
    ELSE Err("serde_json::Error", IF body.json THEN "missing field" ELSE "expected value")

\* is_success with a fault: only 200 counts as a success.
is_success_200(httpstatus) == httpstatus = 200

\* StatusCode::is_success
is_success(httpstatus) == httpstatus >= 200 /\ httpstatus < 300

\* decode_response with a fault: the body of a failed request is decoded as T
\* when it is no Status.
decode_response_lenient(httpstatus, body, T) ==
    IF ~is_success(httpstatus) /\ from_slice("Status", body).ok
    THEN Err("ApiStatusError", from_slice("Status", body).value)
    ELSE IF from_slice(T, body).ok
         THEN Ok(from_slice(T, body).value)
         ELSE Err("DecodeError", "Unable to parse response body")

\* The last and_then of do_request: the status and the whole body to a result.
decode_response(httpstatus, body, T) ==
    IF ~is_success(httpstatus)
    THEN LET status == from_slice("Status", body)
         IN IF status.ok
            THEN Err("ApiStatusError", status.value)
            ELSE Err("HttpStatusError", httpstatus)
    ELSE LET o == from_slice(T, body)
         IN IF o.ok
            THEN Ok(o.value)
            ELSE Err("DecodeError", "Unable to parse response body")

\* watch_failure with a fault: a body that is no Status gives no error value of
\* its own but a decode error.
watch_failure_decode(httpstatus, body) ==
    IF from_slice("Status", body).ok
    THEN Err("ApiStatusError", from_slice("Status", body).value)
    ELSE Err("DecodeError", "Unable to parse watch line")

\* do_watch's or_else over a response that is no success (client/mod.rs 225-240)
watch_failure(httpstatus, body) ==
    LET status == from_slice("Status", body)
    IN IF status.ok
       THEN Err("ApiStatusError", status.value)
       ELSE Err("HttpStatusError", httpstatus)

\* The JSON document a record of a watch body holds.  The line "a" stands for
\* an ADDED event with its object, the line "b" for an ERROR event with a
\* Status; any other line, the empty one included, is no JSON.
LineDocument(line) ==
    IF line = <<97>>
    THEN [json |-> TRUE, kind |-> "WatchEvent", type |-> "ADDED", object |-> "Pod"]
    ELSE IF line = <<98>>
    THEN [json |-> TRUE, kind |-> "WatchEvent", type |-> "ERROR", object |-> "Status"]
    ELSE NotJson

\* watch_line with a fault: a record that is no event is taken for an event.
watch_line_any(line) ==
    IF from_slice("WatchEvent", LineDocument(line)).ok
    THEN Ok(from_slice("WatchEvent", LineDocument(line)).value)
    ELSE Ok([kind |-> "WatchEvent", type |-> "ADDED", object |-> "Pod"])

\* watch_line with a fault: an ERROR event is made the error of the stream.
watch_line_status(line) ==
    IF from_slice("WatchEvent", LineDocument(line)).ok
    THEN IF from_slice("WatchEvent", LineDocument(line)).value.type = "ERROR"
         THEN Err("ApiStatusError", from_slice("WatchEvent", LineDocument(line)).value.object)
         ELSE Ok(from_slice("WatchEvent", LineDocument(line)).value)
    ELSE Err("DecodeError", "Unable to parse watch line")

\* The and_then of do_watch over the records (client/mod.rs 250-254): each
\* record is decoded on its own.
watch_line(line) ==
    LET o == from_slice("WatchEvent", LineDocument(line))
    IN IF o.ok
       THEN Ok(o.value)
       ELSE Err("DecodeError", "Unable to parse watch line")

\* The error of the frame splitter, as from_err() hands it on.
SplitterError == Err("resplit::Error", "partial record")

\* TransportError with a fault: what was read of the body is decoded, and the
\* failure comes out as that of the decoding.
TransportErrorDecoded == Err("DecodeError", "Unable to parse response body")

\* client.request(req) or concat2() failed: the hyper::Error, as it is.
TransportError == Err("hyper::Error", "connection error")

(***************************************************************************)
(* The operations of Client (client/mod.rs 304-455): what each builds when *)
(* it is called.  No operation does I/O before its future or stream is     *)
(* polled.                                                                 *)
(***************************************************************************)

\* required_attr("name")
required_attr(attr) == Err("RequiredAttributeError", attr)

\* put_request with a fault: an object without a name is put at the collection.
put_request_unnamed(server, gvr, value, opts) ==
    Request("POST",
            url(server, gvr, value.metadata.namespace, value.metadata.name, opts),
            Some(value))

\* The request closure of put: the name is required before anything is built.
put_request(server, gvr, value, opts) ==
    IF value.metadata.name = None
    THEN required_attr("name")
    ELSE Request("POST",
                 url(server, gvr, value.metadata.namespace, value.metadata.name, opts),
                 Some(value))

\* set_watch with a fault: the caller's value is kept.
keep_watch(opts) == opts

\* opts.watch = true
set_watch(opts) == [opts EXCEPT !.watch = TRUE]

\* The request each operation builds from its arguments.  iter builds only the
\* URL and makes the request of each page when the page is fetched.
BuildRequest(op, a) ==
    CASE op = "get" ->
            Request("GET", url(a.server, a.gvr, a.namespace, a.name, a.opts), None)
      [] op = "put" -> put_request(a.server, a.gvr, a.value, a.opts)
      [] op = "watch" ->
            Request("GET", url(a.server, a.gvr, a.namespace, a.name, set_watch(a.opts)), None)
      [] op = "watch_list" ->
            Request("GET", url(a.server, a.gvr, a.namespace, None, set_watch(a.opts)), None)
      [] op = "list" ->
            Request("GET", url(a.server, a.gvr, a.namespace, None, a.opts), None)
      [] op = "iter" ->
            Request("GET", url(a.server, a.gvr, a.namespace, None, a.opts), None)

\* The type each operation decodes a successful body as.
ResultType(op) == IF op \in {"list", "iter"} THEN "PodList" ELSE "Pod"

\* What a call delivers to its consumer: values, errors and the end of a stream.
\* responses keeps, for each response whose body was read whole, the status, the
\* body and what it was decoded to.
Item(v) == [tag |-> "item", ok |-> TRUE, value |-> v]
Failure(e) == [tag |-> "error", ok |-> FALSE, error |-> e.error, detail |-> e.detail]
End == [tag |-> "end", ok |-> TRUE]

NoCall == [phase |-> "none"]

\* A call as its operation returns it: the request built, nothing sent.
\* ctx is the state iter's unfold carries: the URL and the options of the next
\* page, or None; inner is what is left of the page being handed out; lines is
\* the frame splitter over the body of a watch; conn tells whether the call
\* owns a connection: the ResponseFuture of its request or the Body of its
\* response.
NewCall(op, a) ==
    LET req == BuildRequest(op, a) IN
    [phase |-> "created", op |-> op, args |-> a, req |-> req,
     status |-> 0, responses |-> <<>>, out |-> <<>>,
     ctx |-> IF op = "iter" /\ req.ok
             THEN Some([url |-> url(a.server, a.gvr, a.namespace, None, a.opts).value,
                        opts |-> a.opts])
             ELSE None,
     inner |-> <<>>,
     lines |-> [phase |-> "idle"],
     conn |-> FALSE]

\* into_items with a fault: the items of a page come out last first.
into_items_reversed(page) ==
    [i \in 1..Len(page.items) |-> page.items[Len(page.items) + 1 - i]]

\* page.into_items(): the items of a page, as the page holds them.
into_items(page) == page.items

\* NextContext with a fault: the context is kept when the page has no token.
NextContextKept(ctx, list) ==
    IF list.continu = None THEN Ok(Some(ctx))
    ELSE Ok(Some([url |-> [ctx.url EXCEPT
                              !.query = Some(to_string([ctx.opts EXCEPT
                                                !.continu = list.continu[1]]).value)],
                  opts |-> [ctx.opts EXCEPT !.continu = list.continu[1]]]))

\* fetch_pages, after a page has been decoded: the context of the next page.
\* The options take the page's continue token and the query is encoded anew.
NextContext(ctx, list) ==
    IF list.continu = None THEN Ok(None)
    ELSE LET opts == [ctx.opts EXCEPT !.continu = list.continu[1]]
             query == to_string(opts)
         IN IF query.ok
            THEN Ok(Some([url |-> [ctx.url EXCEPT !.query = Some(query.value)],
                          opts |-> opts]))
            ELSE query

(***************************************************************************)
(* The inputs of the model.                                                *)
(***************************************************************************)

Groups == {"", "rbac.authorization.k8s.io"}
Versions == {"v1", "v1beta1"}
Resources == {"pods", "namespaces"}
GVRs == [group : Groups, version : Versions, resource : Resources]
Namespaces == {None, Some("myns")}
Names == {None, Some("myname")}

GetOptionsAll == [type : {"GetOptions"}, pretty : BOOLEAN]

ListOptionsAll ==
    [type : {"ListOptions"},
     resource_version : {"", "abcdef"}, timeout_seconds : {0, 30}, watch : BOOLEAN,
     pretty : BOOLEAN, field_selector : {"", "metadata.name=web"},
     label_selector : {"", "app=web"}, include_uninitialized : BOOLEAN,
     limit : {0, 27}, continu : {"", "tok en"}]

UrlInputs ==
    [server : Servers, gvr : GVRs, namespace : Namespaces, name : Names,
     opts : GetOptionsAll \cup ListOptionsAll]

MaxFields == 2

EnvelopeKeys == {"apiVersion", "kind", "metadata"}
EnvelopeValues == {None, Some("v1alpha1"), Some("v1"), Some("Test"), Some("Pod")}
EnvelopeFields == [key : EnvelopeKeys, value : EnvelopeValues]

Envelopes == SeqsUpTo(EnvelopeFields, MaxFields)

MaxBytes == 5

\* The bytes of the model: line feed, 'a', 'b' and 'c'.
Bytes == {LF, 97, 98, 99}

\* The bodies of the model: every sequence of up to MaxBytes bytes.  The
\* transport cuts a body into chunks as it likes.
Bodies == UNION {[1..n -> Bytes] : n \in 0..MaxBytes}

MaxWatchBytes == 4

\* The bodies of a watch that succeeded.
WatchBodies == UNION {[1..n -> Bytes] : n \in 0..MaxWatchBytes}

MaxPages == 2
MaxItems == 2
MaxPolls == 2

\* The calls of the model: one server of each kind, the core group's pods.
CorePods == [group |-> "", version |-> "v1", resource |-> "pods"]

Objects ==
    [kind : {"Pod"},
     metadata : [namespace : {None, Some("myns")}, name : {None, Some("myname")}]]

ClientListOptions ==
    {[ListOptionsDefault EXCEPT !.watch = w, !.limit = l] :
        w \in BOOLEAN, l \in {0, 27}}

\* The arguments of each operation; an argument the operation does not take is None.
ArgsOf(op) ==
    CASE op = "get" ->
            [server : Servers, gvr : {CorePods}, namespace : {Some("myns")},
             name : {Some("myname")}, opts : GetOptionsAll, value : {None}]
      [] op = "put" ->
            [server : Servers, gvr : {CorePods}, namespace : {None},
             name : {None}, opts : GetOptionsAll, value : Objects]
      [] op = "watch" ->
            [server : Servers, gvr : {CorePods}, namespace : {Some("myns")},
             name : {Some("myname")}, opts : ClientListOptions, value : {None}]
      [] OTHER ->
            [server : Servers, gvr : {CorePods}, namespace : {Some("myns")},
             name : {None}, opts : ClientListOptions, value : {None}]

Operations == {"get", "put", "list", "watch", "watch_list", "iter"}
StreamOperations == {"watch", "watch_list", "iter"}

\* What a server may answer.
Statuses == {200, 299, 300, 404}

StatusBody == [json |-> TRUE, kind |-> "Status", code |-> 404, reason |-> "NotFound"]
PodBody ==
    [json |-> TRUE, kind |-> "Pod",
     metadata |-> [namespace |-> Some("myns"), name |-> Some("myname")]]

\* The first n of the items p1, p2, ...
ItemNames == <<"p1", "p2", "p3">>
Tokens == {"tok en", ""}
ListBodies ==
    {[json |-> TRUE, kind |-> "PodList", items |-> SubSeq(ItemNames, 1, n), continu |-> ct] :
        n \in 0..MaxItems, ct \in {None} \cup {Some(t) : t \in Tokens}}

ResponseBodies == {NotJson, StatusBody, PodBody} \cup ListBodies

(***************************************************************************)
(* SpecUrl: Client::url applied once to any input.                         *)
(***************************************************************************)

NotRun == [ok |-> FALSE, error |-> "NotRun", detail |-> ""]

IdleUrl == urlIn = <<>> /\ urlOut = NotRun
IdleTypeMeta == tmIn = <<>> /\ tmOut = NotRun
IdleSplitter == fs = [phase |-> "idle"]
IdleClient == calls = <<>> /\ wire = <<>>
IdleOthers == IdleUrl /\ IdleTypeMeta /\ IdleSplitter

InitUrl ==
    /\ urlIn \in UrlInputs
    /\ urlOut = NotRun
    /\ IdleTypeMeta /\ IdleSplitter /\ IdleClient

UrlBuild ==
    /\ urlOut = NotRun
    /\ urlOut' = url(urlIn.server, urlIn.gvr, urlIn.namespace, urlIn.name, urlIn.opts)
    /\ UNCHANGED <<urlIn, tmIn, tmOut, fs, calls, wire>>

NextUrl == UrlBuild

SpecUrl == InitUrl /\ [][NextUrl]_vars

UrlDone == urlOut # NotRun
UrlOk == UrlDone /\ urlOut.ok

\* C1 as stated: the path begins with /api/{version}/ iff the group is empty and
\* the version is v1, and with /apis/{group}/{version}/ in every other case, the
\* empty group included.
C1_AsStated ==
    UrlOk =>
      LET p == urlOut.value.path
          g == urlIn.gvr.group
          v == urlIn.gvr.version
      IN /\ (Len(p) >= 3 /\ p[1] = "api" /\ p[2] = v) <=> (g = "" /\ v = "v1")
         /\ ~(g = "" /\ v = "v1") =>
               (Len(p) >= 4 /\ p[1] = "apis" /\ p[2] = g /\ p[3] = v)

\* C1 amended: the path begins with /api/{version}/ iff the group is empty and the
\* version is v1; in every other case it begins with /apis/, then {group}/ only
\* when the group is not empty, then {version}/.
C1_RootSegment ==
    UrlOk =>
      LET p == urlOut.value.path
          g == urlIn.gvr.group
          v == urlIn.gvr.version
      IN /\ (Len(p) >= 3 /\ p[1] = "api" /\ p[2] = v) <=> (g = "" /\ v = "v1")
         /\ (~(g = "" /\ v = "v1") /\ g # "") =>
               (Len(p) >= 4 /\ p[1] = "apis" /\ p[2] = g /\ p[3] = v)
         /\ (~(g = "" /\ v = "v1") /\ g = "") =>
               (Len(p) >= 3 /\ p[1] = "apis" /\ p[2] = v)

\* The empty group with a version other than v1 has been built.
C1_Witness ==
    /\ UrlOk /\ urlIn.gvr.group = "" /\ urlIn.gvr.version = "v1beta1"
    /\ urlOut.value.path[1] = "apis"

\* C2: the path is exactly root, [group], version, [namespaces, ns], resource,
\* [name], whatever path the base URL carried; namespaces/{ns} is there iff a
\* namespace was supplied and the trailing name iff a name was supplied.
C2_PathSegments ==
    UrlOk =>
      LET p == urlOut.value.path
          g == urlIn.gvr.group
          hasG == IF g = "" THEN 0 ELSE 1
          hasNs == IF urlIn.namespace = None THEN 0 ELSE 2
          hasName == IF urlIn.name = None THEN 0 ELSE 1
          iv == 1 + hasG + 1
          ir == iv + hasNs + 1
      IN /\ Len(p) = ir + hasName
         /\ p[1] \in {"api", "apis"}
         /\ g # "" => p[2] = g
         /\ p[iv] = urlIn.gvr.version
         /\ urlIn.namespace # None =>
               (p[iv + 1] = "namespaces" /\ p[iv + 2] = urlIn.namespace[1])
         /\ p[ir] = urlIn.gvr.resource
         /\ urlIn.name # None => p[ir + 1] = urlIn.name[1]

\* A base URL with a path of its own, and both a namespace and a name.
C2_Witness ==
    /\ UrlOk /\ urlIn.server = ServerProxy
    /\ urlIn.namespace # None /\ urlIn.name # None

DocumentedNames ==
    <<"resourceVersion", "timeoutSeconds", "watch", "pretty", "fieldSelector",
      "labelSelector", "includeUninitialized", "limit", "continue">>

DocumentedField(n) ==
    CASE n = "resourceVersion" -> "resource_version"
      [] n = "timeoutSeconds" -> "timeout_seconds"
      [] n = "fieldSelector" -> "field_selector"
      [] n = "labelSelector" -> "label_selector"
      [] n = "includeUninitialized" -> "include_uninitialized"
      [] n = "continue" -> "continu"
      [] OTHER -> n

DiffersFromDefault(opts, n) ==
    /\ DocumentedField(n) \in DOMAIN opts
    /\ opts[DocumentedField(n)] # DefaultOf(opts)[DocumentedField(n)]

QueryNames(q) == [i \in 1..Len(q) |-> q[i].name]

\* What C3 says of a request URL built from opts.
QueryAsDocumented(u, opts) ==
    IF \A i \in 1..Len(DocumentedNames) : ~DiffersFromDefault(opts, DocumentedNames[i])
    THEN u.query = None
    ELSE /\ u.query # None
         /\ QueryNames(u.query[1]) =
              SelectSeq(DocumentedNames, LAMBDA n : DiffersFromDefault(opts, n))

\* C3: default options give no query string; otherwise the query holds exactly
\* the fields that differ from their default, once each, under the documented
\* names and in their fixed order.
C3_QueryFields == UrlOk => QueryAsDocumented(urlOut.value, urlIn.opts)

\* The third case of test_url: resourceVersion=abcdef&limit=27.
C3_Witness ==
    /\ UrlOk
    /\ urlIn.opts = [ListOptionsDefault EXCEPT !.resource_version = "abcdef", !.limit = 27]
    /\ urlOut.value.query =
          Some(<<[name |-> "resourceVersion", value |-> "abcdef"],
                 [name |-> "limit", value |-> "27"]>>)

(***************************************************************************)
(* SpecTypeMeta: one envelope decoded as the marker of one type.           *)
(***************************************************************************)

InitTypeMeta ==
    /\ tmIn \in [T : TypeMetas, envelope : Envelopes, encoded : {None}]
    /\ tmOut = NotRun
    /\ IdleUrl /\ IdleSplitter /\ IdleClient

TypeMetaDecode ==
    /\ tmOut = NotRun
    /\ tmOut' = TypeMetaDeserialize(tmIn.T, tmIn.envelope)
    /\ UNCHANGED <<tmIn, urlIn, urlOut, fs, calls, wire>>

\* The marker of a type S is encoded; the envelope to decode is what it wrote.
TypeMetaEncode ==
    /\ tmOut = NotRun
    /\ tmIn.encoded = None
    /\ \E S \in TypeMetas :
          tmIn' = [tmIn EXCEPT !.envelope = TypeMetaSerialize(S), !.encoded = Some(S)]
    /\ UNCHANGED <<tmOut, urlIn, urlOut, fs, calls, wire>>

NextTypeMeta == TypeMetaDecode \/ TypeMetaEncode

SpecTypeMeta == InitTypeMeta /\ [][NextTypeMeta]_vars

TypeMetaDone == tmOut # NotRun

\* The value of a field of an envelope that holds it at most once: None when the
\* field is absent or null.
EnvelopeField(envelope, key) ==
    IF \E i \in 1..Len(envelope) : envelope[i].key = key
    THEN envelope[CHOOSE i \in 1..Len(envelope) : envelope[i].key = key].value
    ELSE None

NoRepeatedField(envelope) ==
    \A i, j \in 1..Len(envelope) :
        (i # j /\ envelope[i].key \in {"apiVersion", "kind"}) =>
            envelope[i].key # envelope[j].key

\* C7: the decoding matrix.  Both fields present and equal to T's constants, or
\* both absent: valid.  Exactly one present: a missing-field error naming the
\* absent one, whatever the present value.  Both present and one differing: a
\* value-mismatch error citing the found and the expected apiVersion/kind.
C7_TypeMetaMatrix ==
    (TypeMetaDone /\ NoRepeatedField(tmIn.envelope)) =>
      LET T == tmIn.T
          a == EnvelopeField(tmIn.envelope, "apiVersion")
          k == EnvelopeField(tmIn.envelope, "kind")
      IN /\ (a = Some(T.api_version) /\ k = Some(T.kind)) => tmOut.ok
         /\ (a = None /\ k = None) => tmOut.ok
         /\ (a # None /\ k = None) =>
               (~tmOut.ok /\ tmOut.error = "missing_field" /\ tmOut.detail = "kind")
         /\ (a = None /\ k # None) =>
               (~tmOut.ok /\ tmOut.error = "missing_field" /\ tmOut.detail = "apiVersion")
         /\ (a # None /\ k # None /\ (a # Some(T.api_version) \/ k # Some(T.kind))) =>
               /\ ~tmOut.ok /\ tmOut.error = "invalid_value"
               /\ tmOut.detail = "invalid value: " \o a[1] \o "/" \o k[1]
                                    \o ", expected " \o T.api_version \o "/" \o T.kind

\* One field present and matching T, the other absent: still a missing-field error.
C7_Witness ==
    /\ TypeMetaDone
    /\ tmIn.T = TestType
    /\ tmIn.envelope = <<[key |-> "apiVersion", value |-> Some("v1alpha1")]>>
    /\ tmOut = Err("missing_field", "kind")

(***************************************************************************)
(* SpecSplit: the frame splitter polled over one chunked body.             *)
(***************************************************************************)

InitSplit ==
    /\ fs \in {SplitterNew(body) : body \in Bodies}
    /\ IdleUrl /\ IdleTypeMeta /\ IdleClient

SplitEmit ==
    /\ fs.phase = "open"
    /\ FindDelim(fs.buf, fs.scanned) # 0
    /\ fs' = SplitterEmit(fs)
    /\ UNCHANGED <<urlIn, urlOut, tmIn, tmOut, calls, wire>>

SplitFeed ==
    /\ fs.phase = "open"
    /\ FindDelim(fs.buf, fs.scanned) = 0
    /\ \E n \in 1..Len(fs.source) : fs' = SplitterFeed(fs, n)
    /\ UNCHANGED <<urlIn, urlOut, tmIn, tmOut, calls, wire>>

SplitExhausted ==
    /\ fs.phase = "open"
    /\ FindDelim(fs.buf, fs.scanned) = 0
    /\ Len(fs.source) = 0
    /\ fs' = SplitterExhausted(fs)
    /\ UNCHANGED <<urlIn, urlOut, tmIn, tmOut, calls, wire>>

NextSplit == SplitEmit \/ SplitFeed \/ SplitExhausted

SpecSplit == InitSplit /\ [][NextSplit]_vars

RECURSIVE Flatten(_)
Flatten(chunks) == IF chunks = <<>> THEN <<>> ELSE Head(chunks) \o Flatten(Tail(chunks))

\* The byte runs of a byte sequence that end at a line feed, in order, each
\* without its line feed: the k-th lies between the (k-1)-th and the k-th line feed.
LineFeeds(bytes) == {i \in 1..Len(bytes) : bytes[i] = LF}
NthLineFeed(bytes, k) ==
    CHOOSE i \in LineFeeds(bytes) :
        Cardinality({j \in LineFeeds(bytes) : j <= i}) = k
RecordsOf(bytes) ==
    [k \in 1..Cardinality(LineFeeds(bytes)) |->
        SubSeq(bytes,
               (IF k = 1 THEN 0 ELSE NthLineFeed(bytes, k - 1)) + 1,
               NthLineFeed(bytes, k) - 1)]

IsPrefix(p, q) == Len(p) <= Len(q) /\ p = SubSeq(q, 1, Len(p))

SplitFinished == fs.phase \in {"end", "failed"}

\* The whole body: the chunks delivered and the bytes still to come.
SplitBody == Flatten(fs.chunks) \o fs.source

CallIds == {1}

Init ==
    /\ calls = [c \in CallIds |-> NoCall]
    /\ wire = <<>>
    /\ IdleOthers

Others == <<urlIn, urlOut, tmIn, tmOut, fs>>

IsStream(call) == call.op \in StreamOperations

\* AfterError with a fault: a call that failed starts over.
AfterErrorRetry(call) == "created"

\* AfterError with a fault: a pagination goes on after the error of a page.
AfterErrorResume(call) ==
    IF call.op = "iter" /\ call.req.ok THEN "items"
    ELSE IF IsStream(call) THEN "eof" ELSE "done"

\* The phase of a call after it has handed out an error: a future is done; a
\* stream has one more poll to answer, with the end of the stream.
AfterError(call) == IF IsStream(call) THEN "eof" ELSE "done"

Deliver(call, x) == [call EXCEPT !.out = Append(@, x)]

RequestsOf(c) == {i \in 1..Len(wire) : wire[i].call = c}

\* The request a call sends next: the one it was built with, or for iter the
\* GET of the URL its context holds.
NextRequest(call) ==
    IF call.op = "iter"
    THEN Request("GET", Ok(call.ctx[1].url), None).value
    ELSE call.req.value

\* One of get, put, list, watch, watch_list, iter is called.
Invoke(c) ==
    /\ calls[c].phase = "none"
    /\ \E op \in Operations : \E a \in ArgsOf(op) :
          calls' = [calls EXCEPT ![c] = NewCall(op, a)]
    /\ UNCHANGED <<wire, Others>>

\* future::result(req) with a request that could not be built: the error.
FailFast(c) ==
    /\ calls[c].phase = "created"
    /\ ~calls[c].req.ok
    /\ calls' = [calls EXCEPT ![c] =
                    [Deliver(@, Failure(calls[c].req)) EXCEPT !.phase = AfterError(calls[c])]]
    /\ UNCHANGED <<wire, Others>>

\* client.request(req)
SendRequest(c) ==
    /\ calls[c].phase = "created"
    /\ calls[c].req.ok
    /\ wire' = Append(wire, [call |-> c, request |-> NextRequest(calls[c])])
    /\ calls' = [calls EXCEPT ![c].phase = "sent", ![c].conn = TRUE]
    /\ UNCHANGED Others

\* client.request(req) fails.
TransportFail(c) ==
    /\ calls[c].phase = "sent"
    /\ calls' = [calls EXCEPT ![c] =
                    [Deliver(@, Failure(TransportError))
                        EXCEPT !.phase = AfterError(calls[c]), !.conn = FALSE]]
    /\ UNCHANGED <<wire, Others>>

\* The status and the headers of the response arrive.  The body of a watch
\* that succeeded goes to the frame splitter, every other body to concat2.
ResponseHead(c) ==
    /\ calls[c].phase = "sent"
    /\ \E st \in Statuses :
          IF calls[c].op \in {"watch", "watch_list"} /\ is_success(st)
          THEN \E body \in WatchBodies :
                  calls' = [calls EXCEPT ![c].status = st, ![c].phase = "stream",
                                         ![c].lines = SplitterNew(body)]
          ELSE calls' = [calls EXCEPT ![c].status = st, ![c].phase = "head"]
    /\ UNCHANGED <<wire, Others>>

\* A chunk of the body of a watch arrives while the splitter has no whole
\* record: it is buffered.
WatchChunk(c) ==
    /\ calls[c].phase = "stream"
    /\ FindDelim(calls[c].lines.buf, calls[c].lines.scanned) = 0
    /\ \E n \in 1..Len(calls[c].lines.source) :
          calls' = [calls EXCEPT ![c].lines = SplitterFeed(@, n)]
    /\ UNCHANGED <<wire, Others>>

\* The consumer polls the watch and the splitter has a record: it is decoded
\* and handed out, as an event or as the error of its decoding.  The stream
\* of and_then is not ended by the error of one of its items.
WatchRecord(c) ==
    /\ calls[c].phase = "stream"
    /\ FindDelim(calls[c].lines.buf, calls[c].lines.scanned) # 0
    /\ LET lines == SplitterEmit(calls[c].lines)
           r == watch_line(lines.records[Len(lines.records)])
       IN calls' = [calls EXCEPT ![c] =
                      [Deliver(@, IF r.ok THEN Item(r.value) ELSE Failure(r))
                          EXCEPT !.lines = lines]]
    /\ UNCHANGED <<wire, Others>>

\* The server closes the body of a watch: the end of the stream, or the error
\* of the splitter over a partial record.  No poll after either is modelled.
WatchExhausted(c) ==
    /\ calls[c].phase = "stream"
    /\ FindDelim(calls[c].lines.buf, calls[c].lines.scanned) = 0
    /\ Len(calls[c].lines.source) = 0
    /\ LET lines == SplitterExhausted(calls[c].lines)
       IN calls' = [calls EXCEPT ![c] =
                      [Deliver(@, IF lines.phase = "end" THEN End ELSE Failure(SplitterError))
                          EXCEPT !.lines = lines, !.phase = "done", !.conn = FALSE]]
    /\ UNCHANGED <<wire, Others>>

\* concat2() fails.
BodyFail(c) ==
    /\ calls[c].phase = "head"
    /\ calls' = [calls EXCEPT ![c] =
                    [Deliver(@, Failure(TransportError))
                        EXCEPT !.phase = AfterError(calls[c]), !.conn = FALSE]]
    /\ UNCHANGED <<wire, Others>>

\* IterAdvance with a fault: the request of the next page is sent with the
\* last item of the page, before the consumer asks for more.
IterAdvancePrefetch(c, call) ==
    IF call.inner # <<>>
    THEN IF Tail(call.inner) = <<>> /\ call.ctx # None
         THEN /\ calls' = [calls EXCEPT ![c] =
                             [Deliver(call, Item(Head(call.inner)))
                                 EXCEPT !.inner = <<>>, !.phase = "sent", !.conn = TRUE]]
              /\ wire' = Append(wire, [call |-> c, request |-> NextRequest(call)])
         ELSE /\ calls' = [calls EXCEPT ![c] =
                             [Deliver(call, Item(Head(call.inner)))
                                 EXCEPT !.inner = Tail(call.inner), !.phase = "items"]]
              /\ wire' = wire
    ELSE IF call.ctx = None
    THEN /\ calls' = [calls EXCEPT ![c] = [Deliver(call, End) EXCEPT !.phase = "done"]]
         /\ wire' = wire
    ELSE /\ calls' = [calls EXCEPT ![c] = [call EXCEPT !.phase = "sent", !.conn = TRUE]]
         /\ wire' = Append(wire, [call |-> c, request |-> NextRequest(call)])

\* context_of with a fault: the paginations of a client share one context,
\* that of the first of them that has one.
context_shared(c) ==
    LET having == {d \in DOMAIN calls :
                     calls[d].phase # "none" /\ calls[d].op = "iter" /\ calls[d].ctx # None}
    IN IF having = {} THEN calls[c].ctx
       ELSE calls[CHOOSE d \in having : \A e \in having : d <= e].ctx

\* The context of a pagination: the state its own unfold was given, moved
\* into the stream when iter was called.
context_of(c) == calls[c].ctx

\* What iter's stream does next in a poll, with nothing in flight: hand out the
\* next item of the page; or, the page handed out, end without a context and
\* else send the request of the next page.
IterAdvance(c, call) ==
    IF call.inner # <<>>
    THEN /\ calls' = [calls EXCEPT ![c] =
                        [Deliver(call, Item(Head(call.inner)))
                            EXCEPT !.inner = Tail(call.inner), !.phase = "items"]]
         /\ wire' = wire
    ELSE IF call.ctx = None
    THEN /\ calls' = [calls EXCEPT ![c] = [Deliver(call, End) EXCEPT !.phase = "done"]]
         /\ wire' = wire
    ELSE /\ calls' = [calls EXCEPT ![c] = [call EXCEPT !.phase = "sent", !.conn = TRUE]]
         /\ wire' = Append(wire, [call |-> c, request |-> NextRequest(call)])

\* The whole body has arrived: the result of do_request, and what the
\* operation makes of it.
BodyComplete(c) ==
    /\ calls[c].phase = "head"
    /\ \E body \in ResponseBodies :
        LET call == calls[c]
            r == IF call.op \in {"watch", "watch_list"}
                 THEN watch_failure(call.status, body)
                 ELSE decode_response(call.status, body, ResultType(call.op))
            seen == [call EXCEPT !.conn = FALSE, !.responses =
                        Append(@, [status |-> call.status, body |-> body, result |-> r])]
        IN /\ (call.op = "iter" /\ Cardinality(RequestsOf(c)) >= MaxPages /\ body.kind = "PodList")
                => body.continu = None
           /\ IF ~r.ok
              THEN /\ calls' = [calls EXCEPT ![c] =
                                  [Deliver(seen, Failure(r)) EXCEPT !.phase = AfterError(call)]]
                   /\ wire' = wire
              ELSE IF call.op # "iter"
              THEN /\ calls' = [calls EXCEPT ![c] =
                                  [Deliver(seen, Item(r.value)) EXCEPT !.phase = "done"]]
                   /\ wire' = wire
              ELSE LET next == NextContext(context_of(c)[1], r.value)
                   IN IF ~next.ok
                      THEN /\ calls' = [calls EXCEPT ![c] =
                                          [Deliver(seen, Failure(next)) EXCEPT !.phase = "eof"]]
                           /\ wire' = wire
                      ELSE IterAdvance(c, [seen EXCEPT !.ctx = next.value,
                                                       !.inner = into_items(r.value)])
    /\ UNCHANGED Others

\* The consumer polls iter's stream between pages.
IterPoll(c) ==
    /\ calls[c].phase = "items"
    /\ IterAdvance(c, calls[c])
    /\ UNCHANGED Others

\* A stream polled after its error: the end of the stream.
StreamEnd(c) ==
    /\ calls[c].phase = "eof"
    /\ calls' = [calls EXCEPT ![c] = [Deliver(@, End) EXCEPT !.phase = "done"]]
    /\ UNCHANGED <<wire, Others>>

\* drop_owned with a fault: the response is read by a task of its own, which
\* the drop of the call does not reach.
drop_detached(call) == [call EXCEPT !.phase = "dropped"]

\* The future or stream of a call is dropped: the ResponseFuture or Body it
\* owns is dropped with it, and nothing is left to poll.
drop_owned(call) == [call EXCEPT !.phase = "dropped", !.conn = FALSE]

Pending == {"created", "sent", "head", "stream", "items", "eof"}

\* The consumer drops a future or stream that has not come to its end.
Drop(c) ==
    /\ calls[c].phase \in Pending
    /\ calls' = [calls EXCEPT ![c] = drop_owned(@)]
    /\ UNCHANGED <<wire, Others>>

Ends(call) == Cardinality({i \in 1..Len(call.out) : call.out[i].tag = "end"})

\* The consumer polls iter's stream again after its end.  unfold is left
\* without a state by its last poll and answers with the end of the stream.
\* (A stream that ended on the error of url() is not polled again:
\* flatten_stream panics on a poll after its end.)
IterPollEnded(c) ==
    /\ calls[c].phase = "done"
    /\ calls[c].op = "iter"
    /\ calls[c].req.ok
    /\ Ends(calls[c]) <= MaxPolls
    /\ calls' = [calls EXCEPT ![c] = Deliver(@, End)]
    /\ UNCHANGED <<wire, Others>>

Next ==
    \E c \in CallIds :
        \/ Invoke(c)
        \/ FailFast(c)
        \/ SendRequest(c)
        \/ TransportFail(c)
        \/ ResponseHead(c)
        \/ BodyFail(c)
        \/ BodyComplete(c)
        \/ IterPoll(c)
        \/ WatchChunk(c)
        \/ WatchRecord(c)
        \/ WatchExhausted(c)
        \/ Drop(c)
        \/ StreamEnd(c)
        \/ IterPollEnded(c)

Spec == Init /\ [][Next]_vars

Called(c) == calls[c].phase # "none"

\* The number of name=value pairs of a request's query with this name and value.
QueryCount(request, name, value) ==
    IF request.uri.query = None THEN 0
    ELSE Cardinality({i \in 1..Len(request.uri.query[1]) :
                        /\ request.uri.query[1][i].name = name
                        /\ request.uri.query[1][i].value = value})

\* C4: every request of watch and watch_list carries watch=true, whatever the
\* caller's options held; a request of list or iter carries watch=true exactly
\* when the caller's options had watch set, and never watch=false.
C4_WatchOnTheWire ==
    \A i \in 1..Len(wire) :
        LET call == calls[wire[i].call]
            r == wire[i].request
        IN /\ call.op \in {"watch", "watch_list"} =>
                (QueryCount(r, "watch", "true") = 1 /\ QueryCount(r, "watch", "false") = 0)
           /\ call.op \in {"list", "iter"} =>
                /\ QueryCount(r, "watch", "true") = (IF call.args.opts.watch THEN 1 ELSE 0)
                /\ QueryCount(r, "watch", "false") = 0

\* A watch whose caller left watch unset has sent its request with watch=true.
C4_Witness ==
    \E i \in 1..Len(wire) :
        /\ calls[wire[i].call].op = "watch"
        /\ ~calls[wire[i].call].args.opts.watch
        /\ QueryCount(wire[i].request, "watch", "true") = 1

DecodesAs(body, T) == body.json /\ body.kind = T
DoRequestOperations == {"get", "list", "put", "iter"}

\* C8: a response of get, list, put or a page of iter whose status is not 2xx
\* never gives a value: it gives ApiStatusError with the decoded Status when
\* the whole body decodes as Status and HttpStatusError with the numeric status
\* otherwise, and that error is what the call hands out.
C8_FailureStatus ==
    \A c \in CallIds :
        (Called(c) /\ calls[c].op \in DoRequestOperations) =>
          \A k \in 1..Len(calls[c].responses) :
            LET x == calls[c].responses[k] IN
            (x.status < 200 \/ x.status > 299) =>
              /\ ~x.result.ok
              /\ IF DecodesAs(x.body, "Status")
                 THEN /\ x.result.error = "ApiStatusError"
                      /\ x.result.detail.kind = "Status"
                      /\ x.result.detail.code = x.body.code
                      /\ x.result.detail.reason = x.body.reason
                 ELSE /\ x.result.error = "HttpStatusError"
                      /\ x.result.detail = x.status
              /\ \E j \in 1..Len(calls[c].out) :
                    /\ calls[c].out[j] = Failure(x.result)
                    /\ \A l \in (j + 1)..Len(calls[c].out) : calls[c].out[l].tag = "end"

\* A get answered 404 with a body that would decode as the result type.
C8_Witness ==
    \E c \in CallIds :
        /\ Called(c) /\ calls[c].op = "get" /\ calls[c].phase = "done"
        /\ calls[c].responses = <<[status |-> 404, body |-> PodBody,
                                   result |-> Err("HttpStatusError", 404)]>>
        /\ calls[c].out = <<Failure(Err("HttpStatusError", 404))>>

\* C9: a response of get, list, put or a page of iter whose status is 2xx gives
\* the decoded value when the whole body decodes as the result type, and a
\* DecodeError for the response body otherwise; never ApiStatusError or
\* HttpStatusError.
C9_SuccessStatus ==
    \A c \in CallIds :
        (Called(c) /\ calls[c].op \in DoRequestOperations) =>
          \A k \in 1..Len(calls[c].responses) :
            LET x == calls[c].responses[k]
                T == IF calls[c].op \in {"list", "iter"} THEN "PodList" ELSE "Pod"
            IN (x.status >= 200 /\ x.status <= 299) =>
              IF DecodesAs(x.body, T)
              THEN /\ x.result.ok
                   /\ x.result.value.kind = T
                   /\ \A f \in DOMAIN x.result.value : x.result.value[f] = x.body[f]
                   /\ DOMAIN x.result.value = DOMAIN x.body \ {"json"}
                   /\ calls[c].op # "iter" => calls[c].out = <<Item(x.result.value)>>
              ELSE /\ ~x.result.ok
                   /\ x.result.error = "DecodeError"
                   /\ x.result.detail = "Unable to parse response body"
                   /\ \E j \in 1..Len(calls[c].out) : calls[c].out[j] = Failure(x.result)

\* A get answered 299 with a Status body: a DecodeError, not an ApiStatusError.
C9_Witness ==
    \E c \in CallIds :
        /\ Called(c) /\ calls[c].op = "get" /\ calls[c].phase = "done"
        /\ calls[c].responses =
              <<[status |-> 299, body |-> StatusBody,
                 result |-> Err("DecodeError", "Unable to parse response body")]>>
        /\ calls[c].out = <<Failure(Err("DecodeError", "Unable to parse response body"))>>

PutWithoutName(call) == call.op = "put" /\ call.args.value.metadata.name = None
UrlFails(call) == ~PutWithoutName(call) /\ call.args.server \in {ServerMail, ServerBad}

\* C10: a call whose URL cannot be built, or a put of an object without a
\* name, sends no request, ever, and hands out that error and no value:
\* RequiredAttributeError for name, or the UrlError.
C10_FailFast ==
    \A c \in CallIds :
        (Called(c) /\ (PutWithoutName(calls[c]) \/ UrlFails(calls[c]))) =>
          /\ RequestsOf(c) = {}
          /\ calls[c].phase \in {"created", "eof", "done", "dropped"}
          /\ calls[c].phase \in {"eof", "done"} => calls[c].out # <<>>
          /\ calls[c].out # <<>> =>
                /\ calls[c].out[1].tag = "error"
                /\ IF PutWithoutName(calls[c])
                   THEN /\ calls[c].out[1].error = "RequiredAttributeError"
                        /\ calls[c].out[1].detail = "name"
                   ELSE /\ calls[c].out[1].error = "UrlError"
                        /\ calls[c].out[1].detail =
                              (IF calls[c].args.server = ServerMail
                               THEN "URL scheme does not support paths"
                               ELSE "relative URL without a base")
                /\ \A j \in 2..Len(calls[c].out) : calls[c].out[j].tag = "end"

\* A put of an object without a name, to a server whose URL is fine, is done.
C10_Witness ==
    \E c \in CallIds :
        /\ Called(c) /\ PutWithoutName(calls[c]) /\ calls[c].args.server = ServerPlain
        /\ calls[c].phase = "done"
        /\ calls[c].out = <<Failure(required_attr("name"))>>
        /\ wire = <<>>

RECURSIVE ItemsOfPages(_)
ItemsOfPages(responses) ==
    IF responses = <<>> THEN <<>>
    ELSE (IF Head(responses).result.ok THEN Head(responses).body.items ELSE <<>>)
         \o ItemsOfPages(Tail(responses))

ItemValues(out) ==
    LET items == SelectSeq(out, LAMBDA x : x.tag = "item")
    IN [i \in 1..Len(items) |-> items[i].value]

LastPage(x) == x.result.ok /\ x.body.continu = None

\* C5: once iter has fetched a page without a continuation token, that page is
\* the last response and the last request of the sequence; the items of the
\* pages are handed out, then the end of the stream and nothing but the end,
\* however often the stream is polled.
C5_LastPageEnds ==
    \A c \in CallIds :
        (Called(c) /\ calls[c].op = "iter") =>
          \A k \in 1..Len(calls[c].responses) :
            LastPage(calls[c].responses[k]) =>
              LET out == calls[c].out
                  all == ItemsOfPages(calls[c].responses)
                  n == Len(ItemValues(out))
              IN /\ k = Len(calls[c].responses)
                 /\ Cardinality(RequestsOf(c)) = k
                 /\ calls[c].phase \in {"items", "done", "dropped"}
                 /\ IsPrefix(ItemValues(out), all)
                 /\ \A j \in 1..Len(out) :
                       IF j <= n THEN out[j].tag = "item" ELSE out[j].tag = "end"
                 /\ calls[c].phase = "done" <=> (n = Len(all) /\ Len(out) > n)

\* Two pages fetched, the second without a token; the stream has ended and has
\* been polled twice more, with two requests on the wire.
C5_Witness ==
    \E c \in CallIds :
        /\ Called(c) /\ calls[c].op = "iter"
        /\ Len(calls[c].responses) = 2
        /\ LastPage(calls[c].responses[2])
        /\ calls[c].responses[2].body.items # <<>>
        /\ Ends(calls[c]) = 3
        /\ Cardinality(RequestsOf(c)) = 2

(***************************************************************************)
(* The streams: what a watch and a pagination hand to their consumer.      *)
(***************************************************************************)

WatchOperations == {"watch", "watch_list"}

Items(call) == {i \in 1..Len(call.out) : call.out[i].tag = "item"}
Errors(call) == {i \in 1..Len(call.out) : call.out[i].tag = "error"}

\* A watch whose response has arrived with a status that is no success.
WatchRefused(call) ==
    /\ call.phase # "none" /\ call.op \in WatchOperations
    /\ call.status # 0
    /\ (call.status < 200 \/ call.status > 299)

\* C11: a watch whose first response is not 2xx hands out no event and one
\* error, after which the stream ends: ApiStatusError when the whole body
\* decodes as Status, HttpStatusError with the numeric status otherwise; its
\* body never reaches the frame splitter.
C11_WatchRefused ==
    \A c \in CallIds :
        LET call == calls[c] IN
        WatchRefused(call) =>
          /\ call.lines.phase = "idle"
          /\ Items(call) = {}
          /\ Cardinality(Errors(call)) <= 1
          /\ call.phase = "done" =>
                (Len(call.out) = 2 /\ call.out[1].tag = "error" /\ call.out[2] = End)
          /\ call.responses # <<>> =>
                /\ Len(call.responses) = 1
                /\ call.responses[1].status = call.status
                /\ Len(call.out) >= 1
                /\ IF DecodesAs(call.responses[1].body, "Status")
                   THEN /\ call.out[1].tag = "error"
                        /\ call.out[1].error = "ApiStatusError"
                        /\ call.out[1].detail.code = call.responses[1].body.code
                        /\ call.out[1].detail.reason = call.responses[1].body.reason
                   ELSE /\ call.out[1].tag = "error"
                        /\ call.out[1].error = "HttpStatusError"
                        /\ call.out[1].detail = call.status

\* A watch answered 404 with a body that would decode as an object: the HTTP
\* status error and then the end of the stream.
C11_Witness ==
    \E c \in CallIds :
        /\ WatchRefused(calls[c]) /\ calls[c].op = "watch" /\ calls[c].phase = "done"
        /\ calls[c].status = 404
        /\ calls[c].responses[1].body = PodBody
        /\ calls[c].out = <<Failure(Err("HttpStatusError", 404)), End>>
        /\ calls[c].lines.phase = "idle"

\* A watch whose response was a success: its body goes through the splitter.
WatchStreaming(call) ==
    call.phase # "none" /\ call.op \in WatchOperations /\ call.lines.phase # "idle"

DecodeErrors(call) ==
    {i \in Errors(call) : call.out[i].error = "DecodeError"}

\* C12: once a watch has handed out the DecodeError of a record, it hands out
\* no event of a later record, however often it is polled.
C12_DecodeErrorEndsWatch ==
    \A c \in CallIds :
        WatchStreaming(calls[c]) =>
          \A i \in DecodeErrors(calls[c]) : \A j \in Items(calls[c]) : j < i

\* What the code does with "c\na\n": the DecodeError of the first record and,
\* at the next poll, the event of the second.
C12_SkipAndContinue ==
    \E c \in CallIds :
        /\ WatchStreaming(calls[c]) /\ calls[c].op = "watch"
        /\ calls[c].lines.records = <<(<<99>>), (<<97>>)>>
        /\ calls[c].out =
              <<Failure(Err("DecodeError", "Unable to parse watch line")),
                Item([kind |-> "WatchEvent", type |-> "ADDED", object |-> "Pod"])>>

\* The whole body of a watch: the chunks that arrived and the bytes to come.
WatchBody(call) == Flatten(call.lines.chunks) \o call.lines.source

\* What a watch hands out for a record, by the document the record holds.
HandedOutFor(x, record) ==
    IF DecodesAs(LineDocument(record), "WatchEvent")
    THEN x.tag = "item" /\ x.value.type = LineDocument(record).type
                        /\ x.value.object = LineDocument(record).object
    ELSE x.tag = "error" /\ x.error = "DecodeError"

\* C13: iter hands out the items of its pages in the order the pages were
\* fetched and in the order within each page, each once; a watch hands out,
\* for the records of its body in the order the server sent them, one event
\* per record.
C13_ServerOrder ==
    \A c \in CallIds :
        LET call == calls[c] IN
        /\ (Called(c) /\ call.op = "iter") =>
              /\ ItemValues(call.out) \o call.inner = ItemsOfPages(call.responses)
              /\ (call.phase = "done" /\ Errors(call) = {}) =>
                    ItemValues(call.out) = ItemsOfPages(call.responses)
        /\ WatchStreaming(call) =>
              LET records == call.lines.records IN
              /\ IsPrefix(records, RecordsOf(WatchBody(call)))
              /\ call.phase = "done" => records = RecordsOf(WatchBody(call))
              /\ Len(call.out) = Len(records) + (IF call.phase = "done" THEN 1 ELSE 0)
              /\ \A k \in 1..Len(records) : HandedOutFor(call.out[k], records[k])

\* A pagination of two pages of two items, handed out whole.
C13_Witness ==
    \E c \in CallIds :
        /\ Called(c) /\ calls[c].op = "iter" /\ calls[c].phase = "done"
        /\ Len(calls[c].responses) = 2
        /\ ItemValues(calls[c].out) = <<"p1", "p2", "p1", "p2">>

\* A watch whose body "a\nb\n" came in two chunks: the ADDED event, then the
\* ERROR event, then the end.
C13_WitnessWatch ==
    \E c \in CallIds :
        /\ WatchStreaming(calls[c]) /\ calls[c].phase = "done"
        /\ calls[c].lines.chunks = <<(<<97, LF, 98>>), (<<LF>>)>>
        /\ Len(calls[c].out) = 3
        /\ calls[c].out[1].value.type = "ADDED"
        /\ calls[c].out[2].value.type = "ERROR"
        /\ calls[c].out[3] = End

\* C14: iter sends the request of a page only in a poll that has no item to
\* hand out: every item of every page fetched before has been taken, the poll
\* itself hands out nothing, every earlier request has been answered in
\* full, and a step sends at most one request.
C14_DemandDriven ==
    [][\A c \in CallIds :
          (calls'[c].phase # "none" /\ calls'[c].op = "iter"
             /\ RequestsOf(c)' # RequestsOf(c)) =>
            /\ Cardinality(RequestsOf(c)') = Cardinality(RequestsOf(c)) + 1
            /\ Cardinality(RequestsOf(c)') = Len(calls'[c].responses) + 1
            /\ Errors(calls'[c]) = {}
            /\ calls'[c].inner = <<>>
            /\ ItemValues(calls'[c].out) = ItemsOfPages(calls'[c].responses)
            /\ calls'[c].out = calls[c].out
            /\ calls'[c].phase = "sent"]_vars

\* The request of the second page is on the wire, after both items of the
\* first page have been taken.
C14_Witness ==
    \E c \in CallIds :
        /\ Called(c) /\ calls[c].op = "iter" /\ calls[c].phase = "sent"
        /\ Cardinality(RequestsOf(c)) = 2
        /\ Len(calls[c].responses) = 1
        /\ calls[c].out = <<Item("p1"), Item("p2")>>

\* A page fetch of iter failed: the transport did, or the response was read
\* and is no success or no list.
FailedPage(x) ==
    x.status < 200 \/ x.status > 299 \/ ~DecodesAs(x.body, "PodList")

PageFetchFailed(call) ==
    /\ call.phase # "none" /\ call.op = "iter" /\ call.req.ok
    /\ \/ \E i \in Errors(call) : call.out[i].error = "hyper::Error"
       \/ \E k \in 1..Len(call.responses) : FailedPage(call.responses[k])

\* The pages fetched before the page that failed.
PagesBefore(call) ==
    IF call.responses # <<>> /\ FailedPage(call.responses[Len(call.responses)])
    THEN SubSeq(call.responses, 1, Len(call.responses) - 1)
    ELSE call.responses

\* C15: when a page fetch of iter fails, the stream hands out the items of the
\* pages before, then that error, then only the end of the stream; the failed
\* page gives no item, no request follows the failed one, and this stays so
\* however often the stream is polled.
C15_PageFailureEnds ==
    \A c \in CallIds :
        LET call == calls[c]
            before == PagesBefore(call)
            n == Len(ItemsOfPages(before))
        IN PageFetchFailed(call) =>
             /\ \A k \in 1..Len(before) : ~FailedPage(before[k])
             /\ call.phase \in {"eof", "done", "dropped"}
             /\ call.inner = <<>>
             /\ Len(call.out) > n
             /\ ItemValues(call.out) = ItemsOfPages(before)
             /\ \A j \in 1..n : call.out[j].tag = "item"
             /\ call.out[n + 1].tag = "error"
             /\ \A j \in (n + 2)..Len(call.out) : call.out[j] = End
             /\ Cardinality(RequestsOf(c)) = Len(before) + 1
             /\ Len(before) < Len(call.responses) =>
                   call.out[n + 1] = Failure(call.responses[Len(call.responses)].result)

\* The second page of a pagination came back 404 with the body of a list: both
\* items of the first page, the error, and the end at each of three polls.
C15_Witness ==
    \E c \in CallIds :
        /\ PageFetchFailed(calls[c]) /\ calls[c].phase = "done"
        /\ Len(calls[c].responses) = 2
        /\ calls[c].responses[2].status = 404
        /\ DecodesAs(calls[c].responses[2].body, "PodList")
        /\ calls[c].responses[2].body.items # <<>>
        /\ Len(calls[c].out) = 6
        /\ ItemValues(calls[c].out) = <<"p1", "p2">>
        /\ calls[c].out[3].error = "HttpStatusError"
        /\ Cardinality(RequestsOf(c)) = 2

SingleOperations == {"get", "list", "put"}

\* C16: a call of get, list, put, watch or watch_list sends at most one
\* request, whatever becomes of it, and get, list and put hand out one value
\* or one error; a watch is one stream, with one end.  iter sends one request
\* for each page: a request follows only a page that was read whole, decoded
\* and had a continuation token, and each such page is followed by one.
C16_NoRetries ==
    \A c \in CallIds :
        LET call == calls[c]
            sent == Cardinality(RequestsOf(c))
        IN Called(c) =>
             /\ call.op # "iter" => sent <= 1
             /\ ~call.req.ok => sent = 0
             /\ call.op \in SingleOperations =>
                   /\ Len(call.out) <= 1
                   /\ call.phase = "done" =>
                         (Len(call.out) = 1 /\ call.out[1].tag \in {"item", "error"})
             /\ call.op \in WatchOperations =>
                   /\ Ends(call) <= 1
                   /\ \A i \in 1..Len(call.out) : call.out[i].tag = "end" => i = Len(call.out)
             /\ call.op = "iter" =>
                   /\ sent <= Len(call.responses) + 1
                   /\ \A k \in 1..(sent - 1) :
                         /\ call.responses[k].result.ok
                         /\ call.responses[k].body.continu # None
                   /\ (call.phase = "done" /\ Errors(call) = {}) => sent = Len(call.responses)

\* A get whose transport failed: one request, one error and no second try.
C16_Witness ==
    \E c \in CallIds :
        /\ Called(c) /\ calls[c].op = "get" /\ calls[c].phase = "done"
        /\ Cardinality(RequestsOf(c)) = 1
        /\ calls[c].out = <<Failure(TransportError)>>

C17_WitnessIter ==
    \E c \in CallIds :
        /\ calls[c].phase = "dropped" /\ calls[c].op = "iter"
        /\ Cardinality(RequestsOf(c)) = 2 /\ Len(calls[c].responses) = 1
        /\ ~calls[c].conn

(***************************************************************************)
(* SpecTwo: two calls of one Client, their steps interleaved at will over  *)
(* the one transport.  The inputs are fewer than those of Spec.            *)
(***************************************************************************)

TwoCalls == {1, 2}

SmallBodies ==
    {StatusBody, PodBody} \cup {b \in ListBodies : b.continu # Some("") /\ Len(b.items) <= 1}

\* The calls and answers of SpecTwo: get, put, watch and iter on one server,
\* watch unset, two statuses, pages of one item at most, a watch body of two
\* bytes at most.
Small(call) ==
    /\ call.op \in {"get", "put", "watch", "iter"}
    /\ call.args.server = ServerPlain
    /\ call.op = "put" => call.args.value.metadata.namespace = None
    /\ call.op = "watch" => call.args.opts.limit = 0
    /\ ~call.args.opts.type = "GetOptions" \/ ~call.args.opts.pretty
    /\ ~call.args.opts.type = "ListOptions" \/ ~call.args.opts.watch
    /\ call.status \in {0, 200, 404}
    /\ \A k \in 1..Len(call.responses) : call.responses[k].body \in SmallBodies
    /\ call.lines.phase # "idle" =>
          /\ Len(Flatten(call.lines.chunks) \o call.lines.source) <= 2
          /\ Range(Flatten(call.lines.chunks) \o call.lines.source) \subseteq {LF, 97}

InitTwo ==
    /\ calls = [c \in TwoCalls |-> NoCall]
    /\ wire = <<>>
    /\ IdleOthers

NextTwo ==
    \E c \in TwoCalls :
        \/ Invoke(c) /\ Small(calls'[c])
        \/ FailFast(c)
        \/ SendRequest(c)
        \/ TransportFail(c)
        \/ ResponseHead(c) /\ Small(calls'[c])
        \/ BodyFail(c)
        \/ BodyComplete(c) /\ Small(calls'[c])
        \/ IterPoll(c)
        \/ WatchChunk(c)
        \/ WatchRecord(c)
        \/ WatchExhausted(c)
        \/ StreamEnd(c)

SpecTwo == InitTwo /\ [][NextTwo]_vars

\* The requests of a call, in the order they were sent.
RequestSeq(c) ==
    LET own == SelectSeq(wire, LAMBDA w : w.call = c)
    IN [i \in 1..Len(own) |-> own[i].request]

\* The context a pagination has before its k-th request, from its own
\* arguments and the pages it was answered itself.
RECURSIVE ContextAt(_, _)
ContextAt(call, k) ==
    IF k = 1
    THEN Some([url |-> url(call.args.server, call.args.gvr, call.args.namespace,
                           None, call.args.opts).value,
               opts |-> call.args.opts])
    ELSE NextContext(ContextAt(call, k - 1)[1],
                     from_slice("PodList", call.responses[k - 1].body).value).value

\* What a call has sent and handed out is what it sends and hands out alone,
\* given its own arguments and the answers it got itself.
AsAlone(c) ==
    LET call == calls[c]
        sent == RequestSeq(c)
    IN call.phase # "none" =>
         /\ ~BuildRequest(call.op, call.args).ok => sent = <<>>
         /\ (call.op # "iter" /\ BuildRequest(call.op, call.args).ok) =>
               IsPrefix(sent, <<BuildRequest(call.op, call.args).value>>)
         /\ (call.op = "iter" /\ BuildRequest(call.op, call.args).ok) =>
               /\ \A k \in 1..Len(sent) :
                     sent[k] = Request("GET", Ok(ContextAt(call, k)[1].url), None).value
               /\ ItemValues(call.out) \o call.inner = ItemsOfPages(call.responses)
         /\ (call.op \in SingleOperations /\ call.responses # <<>>) =>
               LET r == decode_response(call.responses[1].status, call.responses[1].body,
                                        ResultType(call.op))
               IN call.out = <<IF r.ok THEN Item(r.value) ELSE Failure(r)>>
         /\ WatchStreaming(call) =>
               /\ IsPrefix(call.lines.records, RecordsOf(WatchBody(call)))
               /\ \A k \in 1..Len(call.lines.records) :
                     HandedOutFor(call.out[k], call.lines.records[k])

\* C18: whichever way the steps of two calls interleave, a step changes one
\* call and appends at most that call's request to the wire, the other call
\* and its requests stay as they were, and each call sends and hands out what
\* it would alone, given its own arguments and its own answers.
C18_NoInterference ==
    /\ [](\A c \in TwoCalls : AsAlone(c))
    /\ [][\E c \in TwoCalls :
            /\ IsPrefix(wire, wire')
            /\ \A d \in TwoCalls \ {c} :
                  calls'[d] = calls[d] /\ RequestSeq(d)' = RequestSeq(d)]_vars

\* Two paginations with different options, interleaved: each has fetched two
\* pages, the second after the first of the other, and has its own items.
C18_Witness ==
    /\ calls[1].phase = "done" /\ calls[2].phase = "done"
    /\ calls[1].op = "iter" /\ calls[2].op = "iter"
    /\ calls[1].args.opts.limit = 0 /\ calls[2].args.opts.limit = 27
    /\ Len(wire) = 4
    /\ wire[1].call = 1 /\ wire[2].call = 2 /\ wire[3].call = 1 /\ wire[4].call = 2
    /\ QueryCount(wire[4].request, "limit", "27") = 1
    /\ QueryCount(wire[3].request, "limit", "27") = 0
    /\ ItemValues(calls[1].out) = <<"p1", "p1">>
    /\ ItemValues(calls[2].out) = <<"p1">>

Encoded == tmIn # <<>> /\ tmIn.encoded # None

\* C19: the encoded marker of a type S holds both fields, apiVersion and kind,
\* with S's constants; decoded as the marker of S it is accepted, and decoded
\* as the marker of a type whose apiVersion or kind differs it is refused
\* with the value-mismatch error naming what was found and what was expected.
C19_EncodeDecode ==
    Encoded =>
      LET S == tmIn.encoded[1]
          T == tmIn.T
      IN /\ Len(tmIn.envelope) = 2
         /\ EnvelopeField(tmIn.envelope, "apiVersion") = Some(S.api_version)
         /\ EnvelopeField(tmIn.envelope, "kind") = Some(S.kind)
         /\ TypeMetaDone =>
               IF T = S
               THEN tmOut.ok
               ELSE /\ ~tmOut.ok /\ tmOut.error = "invalid_value"
                    /\ tmOut.detail = "invalid value: " \o S.api_version \o "/" \o S.kind
                                         \o ", expected " \o T.api_version \o "/" \o T.kind

\* The marker of v1alpha1/Test decoded as that of v1alpha1/Pod: only the kind
\* differs.
C19_Witness ==
    /\ Encoded /\ TypeMetaDone
    /\ tmIn.encoded = Some(TestType)
    /\ tmIn.T = [api_version |-> "v1alpha1", kind |-> "Pod"]
    /\ tmOut = Err("invalid_value", "invalid value: v1alpha1/Test, expected v1alpha1/Pod")

\* The marker of a type decoded as its own.
C19_WitnessSame ==
    Encoded /\ TypeMetaDone /\ tmIn.encoded = Some(tmIn.T) /\ tmOut.ok

\* The name=value pairs of a request's query, and those of them that are not
\* the continuation.
Pairs(request) == IF request.uri.query = None THEN <<>> ELSE request.uri.query[1]
OtherPairs(request) == SelectSeq(Pairs(request), LAMBDA p : p.name # "continue")
ContinuePairs(request) == SelectSeq(Pairs(request), LAMBDA p : p.name = "continue")

\* The request of iter that follows a page with a token keeps the path and the
\* other fields of the first request.
SameButContinue(first, next) ==
    /\ next.method = first.method
    /\ next.uri.scheme = first.uri.scheme /\ next.uri.authority = first.uri.authority
    /\ next.uri.path = first.uri.path
    /\ OtherPairs(next) = OtherPairs(first)

\* C20 as stated: after a page with the token t, whatever t is, the next
\* request carries continue=t once, and is the first request otherwise.
C20_AsStated ==
    \A c \in CallIds :
        (Called(c) /\ calls[c].op = "iter") =>
          \A k \in 2..Len(RequestSeq(c)) :
            LET t == calls[c].responses[k - 1].body.continu[1] IN
            /\ ContinuePairs(RequestSeq(c)[k]) = <<[name |-> "continue", value |-> FormEncode(t)]>>
            /\ SameButContinue(RequestSeq(c)[1], RequestSeq(c)[k])

\* C20 amended: after a page with the token t the options' continuation is t
\* and the query is encoded anew: the next request carries continue=t once
\* when t is not empty, and no continue at all when t is the empty string,
\* the default of the field; path and other fields are those of the first
\* request.
C20_ContinueToken ==
    \A c \in CallIds :
        (Called(c) /\ calls[c].op = "iter") =>
          \A k \in 2..Len(RequestSeq(c)) :
            LET t == calls[c].responses[k - 1].body.continu[1] IN
            /\ ContinuePairs(RequestSeq(c)[k]) =
                  (IF t = "" THEN <<>> ELSE <<[name |-> "continue", value |-> FormEncode(t)]>>)
            /\ SameButContinue(RequestSeq(c)[1], RequestSeq(c)[k])

\* A pagination with limit=27 whose first page had the token "tok en": the
\* second request asks for limit=27&continue=tok+en.
C20_Witness ==
    \E c \in CallIds :
        /\ Called(c) /\ calls[c].op = "iter"
        /\ Len(RequestSeq(c)) = 2
        /\ calls[c].responses[1].body.continu = Some("tok en")
        /\ Pairs(RequestSeq(c)[1]) = <<[name |-> "limit", value |-> "27"]>>
        /\ Pairs(RequestSeq(c)[2]) = <<[name |-> "limit", value |-> "27"],
                                       [name |-> "continue", value |-> "tok+en"]>>

\* A page with the empty token: the second request has no continue.
C20_WitnessEmpty ==
    \E c \in CallIds :
        /\ Called(c) /\ calls[c].op = "iter"
        /\ Len(RequestSeq(c)) = 2
        /\ calls[c].responses[1].body.continu = Some("")
        /\ ContinuePairs(RequestSeq(c)[2]) = <<>>

\* The bytes of a byte sequence after its last line feed.
Trailing(bytes) ==
    LET last == IF LineFeeds(bytes) = {} THEN 0
                ELSE NthLineFeed(bytes, Cardinality(LineFeeds(bytes)))
    IN SubSeq(bytes, last + 1, Len(bytes))

\* C21: when the source is exhausted with bytes after the last delimiter in
\* the buffer, the splitter fails and stays failed: the partial record is no
\* record and is still in the buffer; when the source is exhausted with an
\* empty buffer, the records end.  Either way the records are the runs that
\* ended at a delimiter, and nothing follows.
C21_PartialRecordFails ==
    /\ [](SplitFinished =>
            /\ fs.source = <<>>
            /\ fs.buf = Trailing(SplitBody)
            /\ fs.records = RecordsOf(SplitBody)
            /\ fs.phase = "failed" <=> Trailing(SplitBody) # <<>>
            /\ fs.phase = "end" <=> Trailing(SplitBody) = <<>>)
    /\ [][SplitFinished => fs' = fs]_vars

\* "a\nb\nc" in two chunks: the records a and b, then the failure with "c"
\* left in the buffer.
C21_Witness ==
    /\ fs.phase = "failed"
    /\ fs.chunks = <<(<<97, LF>>), (<<98, LF, 99>>)>>
    /\ fs.records = <<(<<97>>), (<<98>>)>>
    /\ fs.buf = <<99>>

\* "a\n" and nothing after it: the record a, then the end.
C21_WitnessEnd ==
    /\ fs.phase = "end"
    /\ SplitBody = <<97, LF>>
    /\ fs.records = <<(<<97>>)>>
    /\ fs.buf = <<>>

\* A request of the call has no response that was read whole.
Unanswered(c) == Cardinality(RequestsOf(c)) > Len(calls[c].responses)

\* C22: do_request classifies a response only once its whole body is read.
\* While the request or the body is under way nothing is handed out for it;
\* when the transport fails then, before or after a status of any kind, the
\* call hands out the transport's error and, for that response, no
\* ApiStatusError, HttpStatusError, DecodeError or value; and the transport's
\* error is handed out in no other case.
C22_TransportErrorAsIs ==
    \A c \in CallIds :
        LET call == calls[c] IN
        (Called(c) /\ call.op \in DoRequestOperations /\ call.req.ok) =>
          /\ call.phase \in {"sent", "head"} =>
                /\ Unanswered(c)
                /\ Errors(call) = {}
                /\ ItemValues(call.out) = ItemsOfPages(call.responses)
                /\ call.op \in SingleOperations => call.out = <<>>
          /\ (call.phase \in {"eof", "done"} /\ Unanswered(c)) =>
                LET n == Len(ItemsOfPages(call.responses)) IN
                /\ ItemValues(call.out) = ItemsOfPages(call.responses)
                /\ Len(call.out) > n
                /\ call.out[n + 1].tag = "error"
                /\ call.out[n + 1].error = "hyper::Error"
                /\ call.out[n + 1].detail = "connection error"
                /\ \A j \in (n + 2)..Len(call.out) : call.out[j] = End
          /\ \A i \in Errors(call) :
                call.out[i].error = "hyper::Error" => Unanswered(c)

\* A get whose response came with 404 and whose body broke off: the
\* transport's error, no status error.
C22_Witness ==
    \E c \in CallIds :
        /\ Called(c) /\ calls[c].op = "get" /\ calls[c].phase = "done"
        /\ calls[c].status = 404
        /\ calls[c].responses = <<>>
        /\ Len(calls[c].out) = 1
        /\ calls[c].out[1].error = "hyper::Error"

\* The same with a status of 200: no decode error and no value.
C22_WitnessSuccess ==
    \E c \in CallIds :
        /\ Called(c) /\ calls[c].op = "list" /\ calls[c].phase = "done"
        /\ calls[c].status = 200
        /\ calls[c].responses = <<>>
        /\ Len(calls[c].out) = 1
        /\ calls[c].out[1].error = "hyper::Error"

\* The line of an ERROR event.
ErrorEventLine == <<98>>

\* C23: a record of a watch that holds an ERROR event with a Status is handed
\* out as an item, the event itself, and not as an error of the stream; the
\* stream goes on with the records after it, each handed out in its place,
\* and ends only when the body does.
C23_ErrorEventIsItem ==
    \A c \in CallIds :
        LET call == calls[c]
            records == call.lines.records
        IN WatchStreaming(call) =>
             \A k \in 1..Len(records) :
               records[k] = ErrorEventLine =>
                 /\ Len(call.out) >= k
                 /\ call.out[k].tag = "item"
                 /\ call.out[k].value.type = "ERROR"
                 /\ call.out[k].value.object = "Status"
                 /\ \A i \in Errors(call) :
                       call.out[i].error \in {"DecodeError", "resplit::Error"}
                 /\ \A j \in (k + 1)..Len(records) : HandedOutFor(call.out[j], records[j])
                 /\ call.phase = "done" =>
                       (Len(records) = Len(RecordsOf(WatchBody(call)))
                          /\ Len(call.out) = Len(records) + 1)

\* The body "b\na\n": the ERROR event as an item, then the ADDED event, then
\* the end of the stream.
C23_Witness ==
    \E c \in CallIds :
        /\ WatchStreaming(calls[c]) /\ calls[c].phase = "done"
        /\ calls[c].lines.records = <<ErrorEventLine, (<<97>>)>>
        /\ calls[c].out =
              <<Item([kind |-> "WatchEvent", type |-> "ERROR", object |-> "Status"]),
                Item([kind |-> "WatchEvent", type |-> "ADDED", object |-> "Pod"]),
                End>>

====
